---------------------------- MODULE Spec2Model ----------------------------
(***************************************************************************)
(* Model of toponetx/classes/reportviews.py: the rank-partitioned views    *)
(* HyperEdgeView, ColoredHyperEdgeView, SimplexView, NodeView and          *)
(* PathView, and the CellView.                                             *)
(*                                                                         *)
(* One behaviour constructs one view (variable `view`), populates it       *)
(* through the owning complex's insert, and calls the view's query         *)
(* methods.  A query leaves the registry alone; its outcome (a returned    *)
(* value or the exception it raised) is recorded in `ret` until the caller *)
(* takes it (Return).                                                      *)
(*                                                                         *)
(* Python values are represented as follows.                               *)
(*   label            an integer of Labels                                 *)
(*   frozenset        a TLA+ set of labels                                 *)
(*   tuple / list     a TLA+ sequence of labels                            *)
(*   dict             a sequence of [key, val] records in insertion order  *)
(*                    (a Python dict iterates in insertion order)          *)
(*   query argument   [t, v, k]: t is the Python shape ("label", "list",   *)
(*                    "set", "obj", or "pair_*" for the (elements, key)    *)
(*                    tuple of the colored view; "tuple" and "frozenset"   *)
(*                    where a view tells them from "list" and "set" by     *)
(*                    being Hashable), v the labels in the                 *)
(*                    order the container yields them, k the multiplicity  *)
(*                    key of a pair (NoKey otherwise)                      *)
(*   text label       a label handed as a str ("str" argument): label n    *)
(*                    read as the text of n copies of one character, so    *)
(*                    label 1 is a one-character text and label 2 a text   *)
(*                    of two characters; iterating it yields its           *)
(*                    characters, each the one-character text (label 1).   *)
(*                    A "label" argument hands the same label as a         *)
(*                    hashable that is not iterable (an int)               *)
(*   outcome          [st, val]: st = "ok" with the returned value, or the *)
(*                    name of the exception raised                         *)
(***************************************************************************)
EXTENDS Integers, Sequences, FiniteSets, TLC

VARIABLES view, hyperedge_dict, colored_dict, faces_dict, max_dim, nodes,
          colored_nodes, _cells, call, ret

vars == <<view, hyperedge_dict, colored_dict, faces_dict, max_dim, nodes,
          colored_nodes, _cells, call, ret>>

(***************************************************************************)
(* Bounds of the model.                                                    *)
(***************************************************************************)
\* cells the owning complex inserts into one view
MaxCells == 2
\* ranks a hyperedge may be assigned: 0..MaxRank
MaxRank == 2
\* longest list / tuple handed to a query
MaxLen == 2

Labels == {1, 2}
Ranks == 0..MaxRank
\* multiplicity keys of the colored view (not necessarily starting at 0)
MKeys == {0, 1}
\* attribute records, opaque to the views
AttrRecords == {[w |-> 1], [w |-> 2]}
\* sentinels of the model: no multiplicity key, no rank (below every key and rank)
NoKey == 0 - 1
NoRank == 0 - 1

Views == {"HyperEdgeView", "ColoredHyperEdgeView", "SimplexView", "PathView",
          "NodeView", "CellView"}

(***************************************************************************)
(* Python values                                                           *)
(***************************************************************************)
Range(s) == {s[i] : i \in 1..Len(s)}

Min(S) == CHOOSE x \in S : \A y \in S : x <= y

\* sorted() of a set of integers (ranks): integers are totally ordered
RECURSIVE SortedInts(_)
SortedInts(S) ==
    IF S = {} THEN <<>> ELSE <<Min(S)>> \o SortedInts(S \ {Min(S)})

\* the labels of a set in ascending order: the representation of a set argument
SetAsSeq(S) == SortedInts(S)

Lists == UNION {[1..n -> Labels] : n \in 0..MaxLen}
SetKeys == (SUBSET Labels) \ {{}}

LabelArg(a) == [t |-> "label", v |-> <<a>>, k |-> NoKey]
ListArg(s) == [t |-> "list", v |-> s, k |-> NoKey]
SetArg(S) == [t |-> "set", v |-> SetAsSeq(S), k |-> NoKey]
ObjArg(S) == [t |-> "obj", v |-> SetAsSeq(S), k |-> NoKey]
TupleArg(s) == [t |-> "tuple", v |-> s, k |-> NoKey]
FrozensetArg(S) == [t |-> "frozenset", v |-> SetAsSeq(S), k |-> NoKey]
StrArg(a) == [t |-> "str", v |-> <<a>>, k |-> NoKey]
NoArg == [t |-> "none", v |-> <<>>, k |-> NoKey]

\* the characters of the text label a, and what iterating an argument yields
Chars(a) == [i \in 1..a |-> 1]
Elements(x) == IF x.t = "str" THEN Chars(x.v[1]) ELSE x.v

\* outcomes of a call
Returns(x) == [st |-> "ok", val |-> x]
Raises(e) == [st |-> e, val |-> <<>>]
NoRet == [st |-> "idle", val |-> <<>>]

\* a dict as a sequence of [key, val] in insertion order
DictKeys(d) == {d[i].key : i \in 1..Len(d)}
DictHas(d, key) == \E i \in 1..Len(d) : d[i].key = key
DictGet(d, key) == d[CHOOSE i \in 1..Len(d) : d[i].key = key].val
DictSet(d, key, val) ==
    IF DictHas(d, key)
    THEN [i \in 1..Len(d) |-> IF d[i].key = key THEN [key |-> key, val |-> val] ELSE d[i]]
    ELSE Append(d, [key |-> key, val |-> val])
KeyList(d) == [i \in 1..Len(d) |-> d[i].key]

(***************************************************************************)
(* sorted(): CPython's list.sort on a list shorter than 64 elements is     *)
(* count_run (the initial ascending, or strictly descending and then       *)
(* reversed, run) followed by a binary insertion sort, every comparison    *)
(* being the elements' "<".  On frozensets "<" is proper subset; on tuples *)
(* it is "<" of the first components that differ.                          *)
(***************************************************************************)
FrozensetLT(x, y) == x \subseteq y /\ x # y

TupleLT(x, y) ==
    IF x[1] # y[1] THEN FrozensetLT(x[1], y[1]) ELSE x[2] < y[2]

PyLT(kind, x, y) ==
    IF kind = "frozenset" THEN FrozensetLT(x, y) ELSE TupleLT(x, y)

RECURSIVE RunEnd(_, _, _, _)
\* count_run: the last index of the run that starts at s[1]
RunEnd(kind, s, i, descending) ==
    IF i > Len(s) THEN i - 1
    ELSE IF PyLT(kind, s[i], s[i - 1]) = descending
         THEN RunEnd(kind, s, i + 1, descending)
         ELSE i - 1

Reverse(s) == [i \in 1..Len(s) |-> s[Len(s) + 1 - i]]

RECURSIVE BinarySearch(_, _, _, _, _)
\* binarysort's inner loop over the 0-based offsets l < r
BinarySearch(kind, s, pivot, l, r) ==
    LET p == l + ((r - l) \div 2)
        l2 == IF PyLT(kind, pivot, s[p + 1]) THEN l ELSE p + 1
        r2 == IF PyLT(kind, pivot, s[p + 1]) THEN p ELSE r
    IN IF l2 < r2 THEN BinarySearch(kind, s, pivot, l2, r2) ELSE l2

RECURSIVE BinarySort(_, _, _)
\* binarysort: s[1..start-1] is sorted; insert s[start], s[start+1], ...
BinarySort(kind, s, start) ==
    IF start > Len(s) THEN s
    ELSE LET pivot == s[start]
             l == BinarySearch(kind, s, pivot, 0, start - 1)
             t == SubSeq(s, 1, l) \o <<pivot>> \o SubSeq(s, l + 1, start - 1)
                    \o SubSeq(s, start + 1, Len(s))
         IN BinarySort(kind, t, start + 1)

Sorted(kind, s) ==
    IF Len(s) < 2 THEN s
    ELSE LET descending == PyLT(kind, s[2], s[1])
             n == RunEnd(kind, s, 3, descending)
             run == IF descending
                    THEN Reverse(SubSeq(s, 1, n)) \o SubSeq(s, n + 1, Len(s))
                    ELSE s
         IN BinarySort(kind, run, n + 1)

(***************************************************************************)
(* HyperEdgeView                                                           *)
(* hyperedge_dict: rank -> dict(frozenset -> attributes); a TLA+ function  *)
(* whose domain is the set of ranks present.                               *)
(***************************************************************************)
\* HyperEdgeView.allranks
allranks(hd) == SortedInts(DOMAIN hd)

\* HyperEdgeView._to_frozen_set
to_frozen_set_bug(x) == IF Len(x.v) = 0 THEN {} ELSE {x.v[1]}
to_frozen_set(x) == IF x.t = "obj" THEN Range(x.v) ELSE Range(Elements(x))

\* returns the position in allranks instead of the rank found there
ScanRanks_bug(hd, ranks, fs) ==
    LET P == {j \in 1..Len(ranks) : DictHas(hd[ranks[j]], fs)}
    IN IF P = {} THEN NoRank ELSE Min(P) - 1
RECURSIVE ScanRanks(_, _, _)
\* for i in list(self.allranks): if frozenset(edge) in self.hyperedge_dict[i]: return i
ScanRanks(hd, ranks, fs) ==
    IF ranks = <<>> THEN NoRank
    ELSE IF DictHas(hd[Head(ranks)], fs) THEN Head(ranks)
         ELSE ScanRanks(hd, Tail(ranks), fs)

\* scans every rank for a bare label too
get_rank_scan(hd, edge) ==
    LET fs == IF edge.t \in {"obj", "list", "set"} THEN Range(edge.v) ELSE {edge.v[1]}
        i == ScanRanks(hd, allranks(hd), fs)
    IN IF edge.t \in {"obj", "list", "set"} /\ Len(edge.v) = 0 THEN Returns(0)
       ELSE IF i # NoRank THEN Returns(i) ELSE Raises("KeyError")
\* HyperEdgeView.get_rank / ColoredHyperEdgeView.get_rank (the two are the same
\* code); a str takes the same rank-0 lookup as any other bare label
get_rank(hd, edge) ==
    IF edge.t \in {"obj", "list", "set"}
    THEN IF Len(edge.v) = 0 THEN Returns(0)
         ELSE LET i == ScanRanks(hd, allranks(hd), Range(edge.v))
              IN IF i # NoRank THEN Returns(i) ELSE Raises("KeyError")
    ELSE \* a hashable that is not iterable: looked up at rank 0 only
         IF 0 \notin DOMAIN hd THEN Raises("KeyError")
         ELSE IF DictHas(hd[0], {edge.v[1]}) THEN Returns(0)
              ELSE Raises("KeyError")

\* HyperEdgeView.__getitem__
HEV_getitem(hd, hyperedge) ==
    LET hyperedge_ == to_frozen_set(hyperedge)
        rank == get_rank(hd, SetArg(hyperedge_))
    IN IF rank.st # "ok" THEN rank
       ELSE IF rank.val \notin DOMAIN hd THEN Raises("KeyError")
       ELSE IF ~DictHas(hd[rank.val], hyperedge_) THEN Raises("KeyError")
       ELSE Returns(DictGet(hd[rank.val], hyperedge_))

\* HyperEdgeView.__contains__ (a str is Iterable)
HEV_contains(hd, e) ==
    IF DOMAIN hd = {} THEN Returns(FALSE)
    ELSE IF e.t \in {"obj", "list", "set", "str"}
         THEN IF Len(Elements(e)) = 0 THEN Returns(FALSE)
              ELSE Returns(ScanRanks(hd, allranks(hd), Range(Elements(e))) # NoRank)
         ELSE IF 0 \notin DOMAIN hd THEN Raises("KeyError")
              ELSE Returns(DictHas(hd[0], {e.v[1]}))

\* HyperEdgeView.shape: one entry per present rank, in ascending rank order
HEV_shape(hd) == [j \in 1..Len(allranks(hd)) |-> Len(hd[allranks(hd)[j]])]

RECURSIVE SumSeq(_)
\* sum() of a sequence of integers
SumSeq(s) == IF s = <<>> THEN 0 ELSE Head(s) + SumSeq(Tail(s))

\* HyperEdgeView.__len__: sum(self.shape)
HEV_len(hd) == SumSeq(HEV_shape(hd))

Levels == {"equal", "upper", "up", "lower", "down", "uppereq", "upeq",
           "lowereq", "downeq"}

\* the rank test of each branch of HyperEdgeView.skeleton
LevelTest_bug(level, rank_i, rank) ==
    CASE level = "equal" -> rank_i = rank
      [] level \in {"upper", "up"} -> rank_i >= rank
      [] level \in {"lower", "down"} -> rank_i < rank
      [] level \in {"uppereq", "upeq"} -> rank_i >= rank
      [] level \in {"lowereq", "downeq"} -> rank_i <= rank
\* "down" admits the rank itself
LevelTest_down(level, rank_i, rank) ==
    CASE level = "equal" -> rank_i = rank
      [] level \in {"upper", "up"} -> rank_i > rank
      [] level \in {"lower", "down"} -> rank_i <= rank
      [] level \in {"uppereq", "upeq"} -> rank_i >= rank
      [] level \in {"lowereq", "downeq"} -> rank_i <= rank
LevelTest(level, rank_i, rank) ==
    CASE level = "equal" -> rank_i = rank
      [] level \in {"upper", "up"} -> rank_i > rank
      [] level \in {"lower", "down"} -> rank_i < rank
      [] level \in {"uppereq", "upeq"} -> rank_i >= rank
      [] level \in {"lowereq", "downeq"} -> rank_i <= rank

RECURSIVE CollectKeys(_, _, _, _)
\* elements = elements + list(self.hyperedge_dict[rank_i].keys()) over allranks
CollectKeys(hd, ranks, level, rank) ==
    IF ranks = <<>> THEN <<>>
    ELSE (IF LevelTest(level, Head(ranks), rank)
          THEN KeyList(hd[Head(ranks)]) ELSE <<>>)
         \o CollectKeys(hd, Tail(ranks), level, rank)

\* HyperEdgeView.skeleton
HEV_skeleton(hd, rank, level) ==
    IF level \notin Levels THEN Raises("ValueError")
    ELSE Returns(Sorted("frozenset", CollectKeys(hd, allranks(hd), level, rank)))

\* the keys stored in a plain registry, and the rank of each
HEV_Stored(hd) == UNION {DictKeys(hd[r]) : r \in DOMAIN hd}
NumCells(hd) ==
    LET RECURSIVE Sum(_)
        Sum(R) == IF R = {} THEN 0
                  ELSE LET r == CHOOSE x \in R : TRUE
                       IN Len(hd[r]) + Sum(R \ {r})
    IN Sum(DOMAIN hd)

\* the owning complex's insert(key, rank, attributes): the key is at no rank yet
HEV_Insert(he, rank, attr) ==
    /\ view = "HyperEdgeView"
    /\ call.op = "idle"
    /\ NumCells(hyperedge_dict) < MaxCells
    /\ he \notin HEV_Stored(hyperedge_dict)
    /\ hyperedge_dict' =
         [r \in DOMAIN hyperedge_dict \cup {rank} |->
            IF r = rank
            THEN (IF r \in DOMAIN hyperedge_dict THEN hyperedge_dict[r] ELSE <<>>)
                   \o <<[key |-> he, val |-> attr]>>
            ELSE hyperedge_dict[r]]
    /\ UNCHANGED <<view, colored_dict, faces_dict, max_dim, nodes, colored_nodes,
                   _cells, call, ret>>

Idle == [op |-> "idle", arg |-> NoArg, rank |-> NoRank, level |-> ""]
Call(op, arg) == [op |-> op, arg |-> arg, rank |-> NoRank, level |-> ""]
CallSkeleton(rank, level) ==
    [op |-> "skeleton", arg |-> NoArg, rank |-> rank, level |-> level]

registry == <<view, hyperedge_dict, colored_dict, faces_dict, max_dim, nodes,
              colored_nodes, _cells>>

HEV_Args ==
    {LabelArg(a) : a \in Labels} \cup {ListArg(s) : s \in Lists}
      \cup {SetArg(S) : S \in SUBSET Labels} \cup {ObjArg(S) : S \in SetKeys}

\* the same with the labels handed as text
TextArgs == {StrArg(a) : a \in Labels}
HEV_TextArgs == HEV_Args \cup TextArgs

HEV_CallGetRank ==
    /\ view = "HyperEdgeView" /\ call.op = "idle"
    /\ \E x \in HEV_TextArgs :
         /\ call' = Call("get_rank", x)
         /\ ret' = get_rank(hyperedge_dict, x)
    /\ UNCHANGED registry

HEV_CallGetitem ==
    /\ view = "HyperEdgeView" /\ call.op = "idle"
    /\ \E x \in HEV_TextArgs :
         /\ call' = Call("getitem", x)
         /\ ret' = HEV_getitem(hyperedge_dict, x)
    /\ UNCHANGED registry

HEV_CallContains ==
    /\ view = "HyperEdgeView" /\ call.op = "idle"
    /\ \E x \in HEV_TextArgs :
         /\ call' = Call("contains", x)
         /\ ret' = HEV_contains(hyperedge_dict, x)
    /\ UNCHANGED registry

HEV_CallShape ==
    /\ view = "HyperEdgeView" /\ call.op = "idle"
    /\ call' = Call("shape", NoArg)
    /\ ret' = Returns(HEV_shape(hyperedge_dict))
    /\ UNCHANGED registry

HEV_CallLen ==
    /\ view = "HyperEdgeView" /\ call.op = "idle"
    /\ call' = Call("len", NoArg)
    /\ ret' = Returns(HEV_len(hyperedge_dict))
    /\ UNCHANGED registry

SkeletonRanks == 0..(MaxRank + 1)

HEV_CallSkeleton ==
    /\ view = "HyperEdgeView" /\ call.op = "idle"
    /\ \E rank \in SkeletonRanks, level \in Levels \cup {"other"} :
         /\ call' = CallSkeleton(rank, level)
         /\ ret' = HEV_skeleton(hyperedge_dict, rank, level)
    /\ UNCHANGED registry

\* the caller takes the outcome of the call
Return ==
    /\ call.op # "idle"
    /\ call' = Idle
    /\ ret' = NoRet
    /\ UNCHANGED registry

(***************************************************************************)
(* ColoredHyperEdgeView                                                    *)
(* hyperedge_dict: rank -> dict(frozenset -> dict(key -> attributes)).     *)
(***************************************************************************)
PairArg(x, key) == [t |-> "pair_" \o x.t, v |-> x.v, k |-> key]
IsPair(x) == x.t \in {"pair_list", "pair_set", "pair_obj"}
IsCollection(x) == x.t \in {"list", "set", "obj"}

\* self.hyperedge_dict[rank][hyperedge_elements][key]
CellRecord_bug(cells, key) == cells[1].val
CellRecord(cells, key) == DictGet(cells, key)

\* ColoredHyperEdgeView.__getitem__
CHEV_getitem(hd, hyperedge) ==
    IF IsPair(hyperedge)
    THEN LET hyperedge_elements == to_frozen_set(hyperedge)
             key == hyperedge.k
             rank == get_rank(hd, SetArg(hyperedge_elements))
         IN IF rank.st # "ok" THEN rank
            ELSE IF rank.val \notin DOMAIN hd THEN Raises("KeyError")
            ELSE IF ~DictHas(hd[rank.val], hyperedge_elements) THEN Raises("KeyError")
            ELSE IF ~DictHas(DictGet(hd[rank.val], hyperedge_elements), key)
                 THEN Raises("KeyError")
            ELSE Returns(CellRecord(DictGet(hd[rank.val], hyperedge_elements), key))
    ELSE IF IsCollection(hyperedge) /\ Len(hyperedge.v) = 2
         THEN \* hyperedge[0]: a set has no item access; a label is not Iterable
              IF hyperedge.t = "set" THEN Raises("TypeError") ELSE Raises("KeyError")
         ELSE \* hyperedge_elements was never assigned
              Raises("UnboundLocalError")

RECURSIVE ScanRanksKey(_, _, _, _)
\* the loop of __contains__ over all_ranks for a collection of labels: the
\* first rank holding the set-key decides, by whether it holds the key
ScanRanksKey(hd, ranks, fs, key) ==
    IF ranks = <<>> THEN FALSE
    ELSE IF DictHas(hd[Head(ranks)], fs)
         THEN DictHas(DictGet(hd[Head(ranks)], fs), key)
         ELSE ScanRanksKey(hd, Tail(ranks), fs, key)

\* ColoredHyperEdgeView.__contains__
CHEV_contains(hd, hyperedge) ==
    IF DOMAIN hd = {} THEN Returns(FALSE)
    ELSE IF hyperedge.t = "label" THEN Returns(FALSE)
    ELSE IF Len(hyperedge.v) = 0 /\ ~IsPair(hyperedge) THEN Returns(FALSE)
    ELSE IF hyperedge.t = "set" /\ Len(hyperedge.v) = 2
         THEN Raises("TypeError")   \* hyperedge[0] on a set
    ELSE IF hyperedge.t = "obj" /\ Len(hyperedge.v) # 2
         THEN \* hyperedge_elements is the HyperEdge itself: any rank, any key
              Returns(ScanRanks(hd, allranks(hd), Range(hyperedge.v)) # NoRank)
    ELSE LET key == IF IsPair(hyperedge) THEN hyperedge.k ELSE 0
         IN IF Len(hyperedge.v) = 0 THEN Returns(FALSE)
            ELSE Returns(ScanRanksKey(hd, allranks(hd), Range(hyperedge.v), key))

RECURSIVE PairList(_, _)
\* [(he, k) for k in d]
PairList(he, d) ==
    IF d = <<>> THEN <<>> ELSE <<<<he, Head(d).key>>>> \o PairList(he, Tail(d))

RECURSIVE RankPairs(_)
\* [(he, k) for he in self.hyperedge_dict[rank] for k in self.hyperedge_dict[rank][he]]
RankPairs(d) ==
    IF d = <<>> THEN <<>>
    ELSE PairList(Head(d).key, Head(d).val) \o RankPairs(Tail(d))

\* Python truth value of the second positional argument of skeleton
Truthy(x) == x # ""

\* ColoredHyperEdgeView.skeleton(rank, store_hyperedge_key): a relation
\* string handed as second argument lands in store_hyperedge_key
CHEV_skeleton(hd, rank, store_hyperedge_key) ==
    IF rank \notin DOMAIN hd THEN Returns(<<>>)
    ELSE IF Truthy(store_hyperedge_key)
         THEN Returns(Sorted("tuple", RankPairs(hd[rank])))
         ELSE Returns(Sorted("frozenset",
                  [i \in 1..Len(RankPairs(hd[rank])) |-> RankPairs(hd[rank])[i][1]]))

RECURSIVE SumLens(_)
\* sum([len(self.hyperedge_dict[i][k]) for k in self.hyperedge_dict[i]])
SumLens(d) == IF d = <<>> THEN 0 ELSE Len(Head(d).val) + SumLens(Tail(d))

\* ColoredHyperEdgeView.shape
CHEV_shape(hd) ==
    [j \in 1..Len(allranks(hd)) |-> SumLens(hd[allranks(hd)[j]])]

\* ColoredHyperEdgeView.__len__: sum(self.shape[1:])
CHEV_len(hd) ==
    LET shape == CHEV_shape(hd)
    IN SumSeq(IF shape = <<>> THEN <<>> ELSE Tail(shape))

\* the orders in which `for r in self.hyperedge_dict` may visit the ranks: the
\* dict yields them in the order the complex first inserted them, which the
\* registry as a function of the rank does not record, so every order of the
\* present ranks is possible
RankOrders(hd) ==
    {s \in [1..Cardinality(DOMAIN hd) -> DOMAIN hd] :
       \A i, j \in 1..Len(s) : s[i] = s[j] => i = j}

RECURSIVE CHEV_iter(_, _)
\* ColoredHyperEdgeView.__iter__: rank 0 is skipped, every other rank adds its
\* (he, k) pairs
CHEV_iter(hd, order) ==
    IF order = <<>> THEN <<>>
    ELSE (IF Head(order) = 0 THEN <<>> ELSE RankPairs(hd[Head(order)]))
         \o CHEV_iter(hd, Tail(order))

\* the (set-key, key) pairs stored at rank r, and at any rank
CHEV_PairsAt(hd, r) ==
    IF r \in DOMAIN hd THEN Range(RankPairs(hd[r])) ELSE {}
CHEV_Stored(hd) == UNION {CHEV_PairsAt(hd, r) : r \in DOMAIN hd}

\* the owning complex's insert(key, rank, multiplicity_key, attributes): the
\* key is at no other rank, and the (key, multiplicity key) pair is new
CHEV_Insert(he, rank, key, attr) ==
    /\ view = "ColoredHyperEdgeView"
    /\ call.op = "idle"
    /\ Cardinality(CHEV_Stored(colored_dict)) < MaxCells
    /\ \A r \in DOMAIN colored_dict : DictHas(colored_dict[r], he) => r = rank
    /\ <<he, key>> \notin CHEV_Stored(colored_dict)
    /\ colored_dict' =
         [r \in DOMAIN colored_dict \cup {rank} |->
            IF r # rank THEN colored_dict[r]
            ELSE LET d == IF r \in DOMAIN colored_dict THEN colored_dict[r] ELSE <<>>
                     cells == IF DictHas(d, he) THEN DictGet(d, he) ELSE <<>>
                 IN DictSet(d, he, DictSet(cells, key, attr))]
    /\ UNCHANGED <<view, hyperedge_dict, faces_dict, max_dim, nodes, colored_nodes,
                   _cells, call, ret>>

Collections ==
    {ListArg(s) : s \in Lists} \cup {SetArg(S) : S \in SUBSET Labels}
      \cup {ObjArg(S) : S \in SetKeys}

Pairs == {PairArg(x, key) : x \in Collections, key \in MKeys}

CHEV_CallGetRank ==
    /\ view = "ColoredHyperEdgeView" /\ call.op = "idle"
    /\ \E x \in HEV_TextArgs :
         /\ call' = Call("get_rank", x)
         /\ ret' = get_rank(colored_dict, x)
    /\ UNCHANGED registry

CHEV_CallGetitem ==
    /\ view = "ColoredHyperEdgeView" /\ call.op = "idle"
    /\ \E x \in Pairs \cup {LabelArg(a) : a \in Labels}
                \cup {ListArg(s) : s \in Lists} \cup {SetArg(S) : S \in SUBSET Labels} :
         /\ call' = Call("getitem", x)
         /\ ret' = CHEV_getitem(colored_dict, x)
    /\ UNCHANGED registry

CHEV_CallContains ==
    /\ view = "ColoredHyperEdgeView" /\ call.op = "idle"
    /\ \E x \in Pairs \cup HEV_Args :
         /\ call' = Call("contains", x)
         /\ ret' = CHEV_contains(colored_dict, x)
    /\ UNCHANGED registry

CHEV_CallSkeleton ==
    /\ view = "ColoredHyperEdgeView" /\ call.op = "idle"
    /\ \E rank \in SkeletonRanks, level \in Levels \cup {"other"} :
         /\ call' = CallSkeleton(rank, level)
         /\ ret' = CHEV_skeleton(colored_dict, rank, level)
    /\ UNCHANGED registry

CHEV_CallShape ==
    /\ view = "ColoredHyperEdgeView" /\ call.op = "idle"
    /\ call' = Call("shape", NoArg)
    /\ ret' = Returns(CHEV_shape(colored_dict))
    /\ UNCHANGED registry

CHEV_CallIter ==
    /\ view = "ColoredHyperEdgeView" /\ call.op = "idle"
    /\ \E order \in RankOrders(colored_dict) :
         /\ call' = Call("iter", NoArg)
         /\ ret' = Returns(CHEV_iter(colored_dict, order))
    /\ UNCHANGED registry

CHEV_CallLen ==
    /\ view = "ColoredHyperEdgeView" /\ call.op = "idle"
    /\ call' = Call("len", NoArg)
    /\ ret' = Returns(CHEV_len(colored_dict))
    /\ UNCHANGED registry

(***************************************************************************)
(* CellView                                                                *)
(* _cells: dict(tuple -> dict(key -> Cell)); a Cell is represented by its  *)
(* elements and its _attributes.                                           *)
(***************************************************************************)
\* [self._cells[cell][c]._attributes for c in self._cells[cell]]
AttributesOf(d) == [i \in 1..Len(d) |-> d[i].val.attributes]

\* [self._cells[cell][c] for c in self._cells[cell]]
CellsOf(d) == [i \in 1..Len(d) |-> d[i].val]

\* always the list, a single entry included
SingleOrList_list(items) == items
\* len(...) == 1: the entry under the only key; otherwise the list of all
SingleOrList(items) == IF Len(items) = 1 THEN items[1] ELSE items

\* CellView.__getitem__: a Cell is looked up by its elements, a tuple or list
\* by tuple(cell); anything else is a TypeError
CV_getitem(cs, cell) ==
    IF cell.t \notin {"obj", "list"} THEN Raises("TypeError")
    ELSE IF ~DictHas(cs, cell.v) THEN Raises("KeyError")
    ELSE Returns(SingleOrList(AttributesOf(DictGet(cs, cell.v))))

\* CellView.raw
CV_raw(cs, cell) ==
    IF cell.t \notin {"obj", "list"} THEN Raises("TypeError")
    ELSE IF ~DictHas(cs, cell.v) THEN Raises("KeyError")
    ELSE Returns(SingleOrList(CellsOf(DictGet(cs, cell.v))))

\* CellView.__len__
CV_len(cs) == SumLens(cs)

\* boundaries of the cells the complex may hold
CellKeys == {s \in Lists : Len(s) = MaxLen}

\* the owning complex's insert of a cell under a new multiplicity key
CV_Insert(key, k, attr) ==
    /\ view = "CellView"
    /\ call.op = "idle"
    /\ CV_len(_cells) < MaxCells
    /\ ~(DictHas(_cells, key) /\ DictHas(DictGet(_cells, key), k))
    /\ _cells' = DictSet(_cells, key,
                    DictSet(IF DictHas(_cells, key) THEN DictGet(_cells, key) ELSE <<>>,
                            k, [elements |-> key, attributes |-> attr]))
    /\ UNCHANGED <<view, hyperedge_dict, colored_dict, faces_dict, max_dim, nodes,
                   colored_nodes, call, ret>>

CV_Args ==
    {LabelArg(a) : a \in Labels} \cup {ListArg(s) : s \in Lists}
      \cup {SetArg(S) : S \in SetKeys}
      \cup {[t |-> "obj", v |-> s, k |-> NoKey] : s \in CellKeys}

CV_CallGetitem ==
    /\ view = "CellView" /\ call.op = "idle"
    /\ \E x \in CV_Args :
         /\ call' = Call("getitem", x)
         /\ ret' = CV_getitem(_cells, x)
    /\ UNCHANGED registry

CV_CallRaw ==
    /\ view = "CellView" /\ call.op = "idle"
    /\ \E x \in CV_Args :
         /\ call' = Call("raw", x)
         /\ ret' = CV_raw(_cells, x)
    /\ UNCHANGED registry

CV_CallLen ==
    /\ view = "CellView" /\ call.op = "idle"
    /\ call' = Call("len", NoArg)
    /\ ret' = Returns(CV_len(_cells))
    /\ UNCHANGED registry

(***************************************************************************)
(* SimplexView and PathView (a subclass sharing faces_dict and max_dim)    *)
(* faces_dict: a list of dicts, faces_dict[r] holding the keys of length   *)
(* r + 1; a TLA+ sequence whose element r + 1 is Python's faces_dict[r].   *)
(***************************************************************************)
ReturnsNone == [st |-> "none", val |-> <<>>]

\* self.faces_dict[idx] with Python's list indexing: a negative index counts
\* from the end; NoRank stands for IndexError
ListIndex(fd, idx) ==
    LET j == IF idx < 0 THEN idx + Len(fd) ELSE idx
    IN IF j < 0 \/ j >= Len(fd) THEN NoRank ELSE j

\* SimplexView.__contains__
SV_contains(fd, md, item) ==
    IF item.t \in {"list", "set", "obj"}
    THEN LET fs == Range(item.v)
         IN IF ~(0 < Cardinality(fs) /\ Cardinality(fs) <= md + 1)
            THEN Returns(FALSE)
            ELSE IF ListIndex(fd, Cardinality(fs) - 1) = NoRank
                 THEN Raises("IndexError")
                 ELSE Returns(DictHas(fd[Cardinality(fs)], fs))
    ELSE IF ListIndex(fd, 0) = NoRank THEN Raises("IndexError")
         ELSE Returns(DictHas(fd[1], {item.v[1]}))

\* SimplexView.__getitem__
SV_getitem(fd, md, simplex) ==
    IF simplex.t = "obj"
    THEN LET j == ListIndex(fd, Len(simplex.v) - 1)
         IN IF j = NoRank THEN Raises("IndexError")
            ELSE IF DictHas(fd[j + 1], Range(simplex.v))
                 THEN Returns(DictGet(fd[j + 1], Range(simplex.v)))
                 ELSE ReturnsNone
    ELSE IF simplex.t \in {"list", "set"}
    THEN LET fs == Range(simplex.v)
             j == ListIndex(fd, Cardinality(fs) - 1)
         IN IF j = NoRank THEN Raises("IndexError")
            ELSE IF DictHas(fd[j + 1], fs) THEN Returns(DictGet(fd[j + 1], fs))
                 ELSE Raises("KeyError")
    ELSE LET c == SV_contains(fd, md, SetArg({simplex.v[1]}))
         IN IF c.st # "ok" THEN c
            ELSE IF c.val THEN Returns(DictGet(fd[1], {simplex.v[1]}))
                 ELSE ReturnsNone

\* SimplexView.shape: one entry per slot of faces_dict
SV_shape(fd) == [j \in 1..Len(fd) |-> Len(fd[j])]

\* SimplexView.__len__: sum(self.shape)
SV_len(fd) == SumSeq(SV_shape(fd))

\* PathView.__contains__ (a list, a tuple and a str are Sequences)
PV_contains(fd, md, item) ==
    IF item.t \in {"list", "str", "obj"}
    THEN LET key == Elements(item)
         IN IF ~(0 < Len(key) /\ Len(key) <= md + 1) THEN Returns(FALSE)
            ELSE IF ListIndex(fd, Len(key) - 1) = NoRank THEN Raises("IndexError")
                 ELSE Returns(DictHas(fd[Len(key)], key))
    ELSE IF ListIndex(fd, 0) = NoRank THEN Raises("IndexError")
         ELSE Returns(DictHas(fd[1], <<item.v[1]>>))

\* the sequence-key of a list or tuple: path = tuple(path)
to_tuple(x) == Elements(x)

\* PathView.__getitem__
PV_getitem(fd, md, path) ==
    IF path.t \in {"obj", "list", "str"}
    THEN LET key == to_tuple(path)
             j == ListIndex(fd, Len(key) - 1)
         IN IF j = NoRank THEN Raises("IndexError")
            ELSE IF DictHas(fd[j + 1], key) THEN Returns(DictGet(fd[j + 1], key))
                 ELSE Raises("KeyError")
    ELSE LET c == PV_contains(fd, md, ListArg(<<path.v[1]>>))
         IN IF c.st # "ok" THEN c
            ELSE IF c.val THEN Returns(DictGet(fd[1], <<path.v[1]>>))
                 ELSE Raises("KeyError")

\* the keys stored in a rank-derived registry
FD_Stored(fd) == UNION {DictKeys(fd[j]) : j \in 1..Len(fd)}
FD_Count(fd) == Cardinality(FD_Stored(fd))

\* the owning complex's insert of a key of length n: the list grows to n
\* slots, the key goes to slot n - 1 and max_dim follows
FD_Insert(fd, n, key, attr) ==
    LET grown == fd \o [j \in 1..(n - Len(fd)) |-> <<>>]
    IN [grown EXCEPT ![n] = DictSet(@, key, attr)]

SV_Insert(simplex, attr) ==
    /\ view = "SimplexView"
    /\ call.op = "idle"
    /\ FD_Count(faces_dict) < MaxCells
    /\ simplex \notin FD_Stored(faces_dict)
    /\ faces_dict' = FD_Insert(faces_dict, Cardinality(simplex), simplex, attr)
    /\ max_dim' = IF Cardinality(simplex) - 1 > max_dim
                  THEN Cardinality(simplex) - 1 ELSE max_dim
    /\ UNCHANGED <<view, hyperedge_dict, colored_dict, nodes, colored_nodes,
                   _cells, call, ret>>

PV_Insert(path, attr) ==
    /\ view = "PathView"
    /\ call.op = "idle"
    /\ FD_Count(faces_dict) < MaxCells
    /\ path \notin FD_Stored(faces_dict)
    /\ faces_dict' = FD_Insert(faces_dict, Len(path), path, attr)
    /\ max_dim' = IF Len(path) - 1 > max_dim THEN Len(path) - 1 ELSE max_dim
    /\ UNCHANGED <<view, hyperedge_dict, colored_dict, nodes, colored_nodes,
                   _cells, call, ret>>

SV_CallGetitem ==
    /\ view = "SimplexView" /\ call.op = "idle"
    /\ \E x \in HEV_Args :
         /\ call' = Call("getitem", x)
         /\ ret' = SV_getitem(faces_dict, max_dim, x)
    /\ UNCHANGED registry

SV_CallContains ==
    /\ view = "SimplexView" /\ call.op = "idle"
    /\ \E x \in HEV_Args :
         /\ call' = Call("contains", x)
         /\ ret' = SV_contains(faces_dict, max_dim, x)
    /\ UNCHANGED registry

\* shape and __len__ are SimplexView's in a PathView too
SV_CallShape ==
    /\ view \in {"SimplexView", "PathView"} /\ call.op = "idle"
    /\ call' = Call("shape", NoArg)
    /\ ret' = Returns(SV_shape(faces_dict))
    /\ UNCHANGED registry

SV_CallLen ==
    /\ view \in {"SimplexView", "PathView"} /\ call.op = "idle"
    /\ call' = Call("len", NoArg)
    /\ ret' = Returns(SV_len(faces_dict))
    /\ UNCHANGED registry

\* paths the complex may hold and sequences a caller may hand in
PathKeys == Lists \ {<<>>}
PV_Args ==
    {LabelArg(a) : a \in Labels} \cup {ListArg(s) : s \in Lists}
      \cup {[t |-> "obj", v |-> s, k |-> NoKey] : s \in PathKeys}
      \cup TextArgs

PV_CallGetitem ==
    /\ view = "PathView" /\ call.op = "idle"
    /\ \E x \in PV_Args :
         /\ call' = Call("getitem", x)
         /\ ret' = PV_getitem(faces_dict, max_dim, x)
    /\ UNCHANGED registry

PV_CallContains ==
    /\ view = "PathView" /\ call.op = "idle"
    /\ \E x \in PV_Args :
         /\ call' = Call("contains", x)
         /\ ret' = PV_contains(faces_dict, max_dim, x)
    /\ UNCHANGED registry

(***************************************************************************)
(* NodeView                                                                *)
(* nodes: dict(frozenset -> attributes), or, with colored_nodes,           *)
(* dict(frozenset -> dict(key -> attributes)).                             *)
(***************************************************************************)
\* NodeView.__contains__: a label, a str, a tuple and a frozenset are
\* Hashable and take the first branch, frozenset({e}) in self.nodes; for a
\* tuple or a frozenset that is the set holding the container itself, which
\* equals no key of nodes (the keys are sets of labels)
NV_contains(nd, e) ==
    IF e.t \in {"label", "str"} THEN Returns(DictHas(nd, {e.v[1]}))
    ELSE IF e.t \in {"tuple", "frozenset"} THEN Returns(FALSE)
    ELSE IF e.t = "obj" THEN Returns(DictHas(nd, Range(e.v)))
    ELSE IF Len(e.v) = 1 THEN Returns(DictHas(nd, Range(e.v)))
         ELSE ReturnsNone

\* the truth value the "in" operator makes of what __contains__ returned
InOperator(r) == IF r.st = "none" THEN Returns(FALSE) ELSE r

\* NodeView.__getitem__
NV_getitem(nd, colored, cell) ==
    IF cell.t = "obj"
    THEN IF DictHas(nd, Range(cell.v)) THEN Returns(DictGet(nd, Range(cell.v)))
         ELSE ReturnsNone
    ELSE IF cell.t \in {"list", "set", "tuple", "frozenset", "str"}
    THEN LET fs == Range(Elements(cell))   \* cell = frozenset(cell)
         IN IF DictHas(nd, fs)
            THEN IF colored
                 THEN IF DictHas(DictGet(nd, fs), 0)
                      THEN Returns(DictGet(DictGet(nd, fs), 0))
                      ELSE Raises("KeyError")
                 ELSE Returns(DictGet(nd, fs))
            ELSE Raises("KeyError")
    ELSE IF InOperator(NV_contains(nd, cell)).val
         THEN IF colored
              THEN IF DictHas(DictGet(nd, {cell.v[1]}), 0)
                   THEN Returns(DictGet(DictGet(nd, {cell.v[1]}), 0))
                   ELSE Raises("KeyError")
              ELSE Returns(DictGet(nd, {cell.v[1]}))
         ELSE ReturnsNone

\* the owning complex's insert of a node: with colored nodes the attributes
\* are stored one level deeper, under key 0
NV_Insert(a, attr) ==
    /\ view = "NodeView"
    /\ call.op = "idle"
    /\ Len(nodes) < MaxCells
    /\ ~DictHas(nodes, {a})
    /\ nodes' = DictSet(nodes, {a},
                        IF colored_nodes THEN <<[key |-> 0, val |-> attr]>> ELSE attr)
    /\ UNCHANGED <<view, hyperedge_dict, colored_dict, faces_dict, max_dim,
                   colored_nodes, _cells, call, ret>>

NV_Args ==
    HEV_TextArgs \cup {TupleArg(s) : s \in Lists}
      \cup {FrozensetArg(S) : S \in SUBSET Labels}

NV_CallGetitem ==
    /\ view = "NodeView" /\ call.op = "idle"
    /\ \E x \in NV_Args :
         /\ call' = Call("getitem", x)
         /\ ret' = NV_getitem(nodes, colored_nodes, x)
    /\ UNCHANGED registry

NV_CallContains ==
    /\ view = "NodeView" /\ call.op = "idle"
    /\ \E x \in NV_Args :
         /\ call' = Call("contains", x)
         /\ ret' = InOperator(NV_contains(nodes, x))
    /\ UNCHANGED registry

Init ==
    /\ view \in Views
    /\ hyperedge_dict = <<>>
    /\ colored_dict = <<>>
    /\ faces_dict = <<>>
    /\ max_dim = -1
    /\ nodes = <<>>
    /\ colored_nodes \in (IF view = "NodeView" THEN BOOLEAN ELSE {FALSE})
    /\ _cells = <<>>
    /\ call = Idle
    /\ ret = NoRet

HEV_Next ==
    \/ \E he \in SetKeys, rank \in Ranks, attr \in AttrRecords :
         HEV_Insert(he, rank, attr)
    \/ HEV_CallGetRank
    \/ HEV_CallGetitem
    \/ HEV_CallContains
    \/ HEV_CallSkeleton
    \/ HEV_CallShape
    \/ HEV_CallLen
    \/ Return

CHEV_Next ==
    \/ \E he \in SetKeys, rank \in Ranks, key \in MKeys, attr \in AttrRecords :
         CHEV_Insert(he, rank, key, attr)
    \/ CHEV_CallGetRank
    \/ CHEV_CallGetitem
    \/ CHEV_CallContains
    \/ CHEV_CallSkeleton
    \/ CHEV_CallShape
    \/ CHEV_CallIter
    \/ CHEV_CallLen
    \/ Return

SV_Next ==
    \/ \E simplex \in SetKeys, attr \in AttrRecords : SV_Insert(simplex, attr)
    \/ SV_CallGetitem
    \/ SV_CallContains
    \/ SV_CallShape
    \/ SV_CallLen
    \/ Return

PV_Next ==
    \/ \E path \in PathKeys, attr \in AttrRecords : PV_Insert(path, attr)
    \/ PV_CallGetitem
    \/ PV_CallContains
    \/ SV_CallShape
    \/ SV_CallLen
    \/ Return

NV_Next ==
    \/ \E a \in Labels, attr \in AttrRecords : NV_Insert(a, attr)
    \/ NV_CallGetitem
    \/ NV_CallContains
    \/ Return

CV_Next ==
    \/ \E key \in CellKeys, k \in MKeys, attr \in AttrRecords : CV_Insert(key, k, attr)
    \/ CV_CallGetitem
    \/ CV_CallRaw
    \/ CV_CallLen
    \/ Return

Next == HEV_Next \/ CHEV_Next \/ SV_Next \/ PV_Next \/ NV_Next \/ CV_Next

\* a behaviour of any one view
Spec == Init /\ [][Next]_vars

\* a behaviour of one HyperEdgeView
InitHEV == Init /\ view = "HyperEdgeView"
SpecHEV == InitHEV /\ [][HEV_Next]_vars

\* a behaviour of one ColoredHyperEdgeView
InitCHEV == Init /\ view = "ColoredHyperEdgeView"
SpecCHEV == InitCHEV /\ [][CHEV_Next]_vars

\* a behaviour of one of the two views whose ranks are assigned
InitRanked == Init /\ view \in {"HyperEdgeView", "ColoredHyperEdgeView"}
RankedNext == HEV_Next \/ CHEV_Next
SpecRanked == InitRanked /\ [][RankedNext]_vars

\* a behaviour of one of the views without multiplicity keys
InitPlain == Init /\ view \in {"HyperEdgeView", "SimplexView", "PathView", "NodeView"}
PlainNext == HEV_Next \/ SV_Next \/ PV_Next \/ NV_Next
SpecPlain == InitPlain /\ [][PlainNext]_vars

\* a behaviour of one of the two views with the single-or-list retrieval
InitDual == Init /\ view \in {"CellView", "HyperEdgeView"}
DualNext == CV_Next \/ HEV_Next
SpecDual == InitDual /\ [][DualNext]_vars

(***************************************************************************)
(* Properties                                                              *)
(***************************************************************************)
RankAssigned == view \in {"HyperEdgeView", "ColoredHyperEdgeView"}
RankDict == IF view = "HyperEdgeView" THEN hyperedge_dict ELSE colored_dict
RanksHolding(hd, fs) == {r \in DOMAIN hd : fs \in DictKeys(hd[r])}
NoDuplicates(s) == \A i, j \in 1..Len(s) : s[i] = s[j] => i = j

\* Python's "<" on two lists of labels (lexicographic)
SeqLess(a, b) ==
    \/ \E i \in 1..Len(a) :
         /\ i <= Len(b) /\ a[i] < b[i]
         /\ \A j \in 1..(i - 1) : a[j] = b[j]
    \/ Len(a) < Len(b) /\ \A j \in 1..Len(a) : a[j] = b[j]

\* C1 (as claimed): get_rank of a collection returns the smallest rank whose
\* collection holds the set-key and raises KeyError when no rank holds it,
\* the empty collection included.
C1_RankOfSetKey ==
    (RankAssigned /\ call.op = "get_rank" /\ call.arg.t \in {"list", "set"}) =>
      LET R == RanksHolding(RankDict, Range(call.arg.v))
      IN IF R = {} THEN ret.st = "KeyError"
         ELSE ret.st = "ok" /\ ret.val = Min(R)

\* C1 (amended): get_rank of a non-empty collection returns the one rank that
\* holds its set-key (the smallest, and the rank it was inserted at) and
\* raises KeyError when no rank holds it; get_rank of the empty collection
\* returns 0 in every registry state.
C1_RankOfSetKeyNonEmpty ==
    (RankAssigned /\ call.op = "get_rank" /\ call.arg.t \in {"list", "set"}) =>
      LET R == RanksHolding(RankDict, Range(call.arg.v))
      IN IF Len(call.arg.v) = 0 THEN ret.st = "ok" /\ ret.val = 0
         ELSE IF R = {} THEN ret.st = "KeyError"
         ELSE ret.st = "ok" /\ ret.val = Min(R) /\ R = {ret.val}

\* C1 witness: {1,2} sits at rank 2 below which rank 1 holds another key, and
\* get_rank([2, 1]) has returned 2.
C1_Witness ==
    /\ RankAssigned /\ call.op = "get_rank"
    /\ call.arg = ListArg(<<2, 1>>)
    /\ DOMAIN RankDict = {1, 2}
    /\ {1, 2} \in DictKeys(RankDict[2])
    /\ ret.st = "ok" /\ ret.val = 2

\* the keys a relation selects, stated on the ranks the keys are stored at
HEV_Selected(hd, rank, level) ==
    {he \in HEV_Stored(hd) :
       \E r \in RanksHolding(hd, he) :
          \/ level = "equal" /\ r = rank
          \/ level \in {"up", "upper"} /\ r > rank
          \/ level \in {"down", "lower"} /\ r < rank
          \/ level \in {"upeq", "uppereq"} /\ r >= rank
          \/ level \in {"downeq", "lowereq"} /\ r <= rank}

\* C2: HyperEdgeView.skeleton(r, relation) returns exactly the stored keys
\* whose rank stands in the relation to r, each once (nothing when r is
\* absent and the relation is equal).
C2_SkeletonSelects ==
    (view = "HyperEdgeView" /\ call.op = "skeleton" /\ call.level \in Levels) =>
      /\ ret.st = "ok"
      /\ Range(ret.val) = HEV_Selected(hyperedge_dict, call.rank, call.level)
      /\ NoDuplicates(ret.val)
      /\ (call.level = "equal" /\ call.rank \notin DOMAIN hyperedge_dict
            => ret.val = <<>>)

\* C2 witness: skeleton(1, "up") has returned a key of rank 2 and left out a
\* key stored at rank 1.
C2_Witness ==
    /\ view = "HyperEdgeView" /\ call.op = "skeleton"
    /\ call.level = "up" /\ call.rank = 1
    /\ DOMAIN hyperedge_dict = {1, 2}
    /\ ret.st = "ok" /\ Len(ret.val) = 1
    /\ ret.val[1] \in DictKeys(hyperedge_dict[2])

\* the ordering of the claim: set-keys by their sorted label sequences, and
\* for the colored view ties broken by the multiplicity key
KeyBefore(x, y) ==
    IF view = "HyperEdgeView" THEN SeqLess(SetAsSeq(x), SetAsSeq(y))
    ELSE \/ SeqLess(SetAsSeq(x[1]), SetAsSeq(y[1]))
         \/ x[1] = y[1] /\ x[2] < y[2]

\* C3: the sequence skeleton returns is ascending in that ordering.
C3_SkeletonAscending ==
    (RankAssigned /\ call.op = "skeleton" /\ ret.st = "ok") =>
      \A i, j \in 1..Len(ret.val) : i < j => ~KeyBefore(ret.val[j], ret.val[i])

CHEV_RecordOf(hd, he, key) ==
    LET r == CHOOSE x \in RanksHolding(hd, he) : TRUE
    IN DictGet(DictGet(hd[r], he), key)

\* C4: ColoredHyperEdgeView get((set_key, key)) returns the record stored for
\* that set-key and that multiplicity key, in whatever order the queried
\* collection lists the labels.
C4_GetByKey ==
    (view = "ColoredHyperEdgeView" /\ call.op = "getitem" /\ IsPair(call.arg)
       /\ <<Range(call.arg.v), call.arg.k>> \in CHEV_Stored(colored_dict)) =>
      /\ ret.st = "ok"
      /\ ret.val = CHEV_RecordOf(colored_dict, Range(call.arg.v), call.arg.k)

\* C4 witness: {1,2} is stored at one rank under key 0 with w = 1 and under
\* key 1 with w = 2, and get(([2, 1], 1)) has returned the record with w = 2.
C4_Witness ==
    /\ view = "ColoredHyperEdgeView" /\ call.op = "getitem"
    /\ call.arg = PairArg(ListArg(<<2, 1>>), 1)
    /\ 1 \in DOMAIN colored_dict
    /\ colored_dict[1] = <<[key |-> {1, 2},
                            val |-> <<[key |-> 0, val |-> [w |-> 1]],
                                      [key |-> 1, val |-> [w |-> 2]]>>]>>
    /\ ret.st = "ok" /\ ret.val = [w |-> 2]

CHEV_Selected(hd, rank, level) ==
    {p \in CHEV_Stored(hd) :
       \E r \in RanksHolding(hd, p[1]) :
          \/ level = "equal" /\ r = rank
          \/ level \in {"up", "upper"} /\ r > rank
          \/ level \in {"down", "lower"} /\ r < rank
          \/ level \in {"upeq", "uppereq"} /\ r >= rank
          \/ level \in {"downeq", "lowereq"} /\ r <= rank}

\* C5: ColoredHyperEdgeView.skeleton(r, relation) returns exactly the
\* (set-key, multiplicity key) pairs whose rank stands in the relation to r,
\* one entry per stored pair.
C5_ColoredSkeletonSelects ==
    (view = "ColoredHyperEdgeView" /\ call.op = "skeleton" /\ call.level \in Levels) =>
      /\ ret.st = "ok"
      /\ Range(ret.val) = CHEV_Selected(colored_dict, call.rank, call.level)
      /\ NoDuplicates(ret.val)

\* whether the key a query argument names is stored in the view
StoredKey(x) ==
    CASE view = "HyperEdgeView" -> Range(x.v) \in HEV_Stored(hyperedge_dict)
      [] view = "ColoredHyperEdgeView" ->
           IF IsPair(x) THEN <<Range(x.v), x.k>> \in CHEV_Stored(colored_dict)
           ELSE \E p \in CHEV_Stored(colored_dict) : p[1] = Range(x.v)
      [] view = "SimplexView" -> Range(x.v) \in FD_Stored(faces_dict)
      [] view = "NodeView" -> Range(x.v) \in DictKeys(nodes)
      [] view = "PathView" -> x.v \in FD_Stored(faces_dict)
      [] view = "CellView" -> x.v \in DictKeys(_cells)

\* C6: in the order-insensitive views a containment query for an argument
\* that names no stored key (a bare label that is not stored, an empty
\* collection, a collection longer than the highest tracked rank + 1, a key
\* whose rank is absent) returns False and never raises, the freshly
\* constructed view and a registry without rank 0 included.
C6_ContainsAnswersFalse ==
    (view # "PathView" /\ call.op = "contains" /\ ~IsPair(call.arg)
       /\ ~StoredKey(call.arg)) =>
      ret.st = "ok" /\ ret.val = FALSE

\* C7: in every view get on a key that is not stored raises KeyError,
\* whichever input shape names the key (for the colored view: the
\* (elements, key) pair).
C7_GetMissingRaisesKeyError ==
    (call.op = "getitem" /\ ~StoredKey(call.arg)
       /\ (view = "ColoredHyperEdgeView" => IsPair(call.arg))) =>
      ret.st = "KeyError"

\* C8: len of a ColoredHyperEdgeView is the number of (set-key, key) entries
\* stored at the ranks other than 0, whether or not rank 0 is present.
C8_LenCountsRanksAboveZero ==
    (view = "ColoredHyperEdgeView" /\ call.op = "len") =>
      /\ ret.st = "ok"
      /\ ret.val = Cardinality(CHEV_Stored(colored_dict) \ CHEV_PairsAt(colored_dict, 0))

\* C9: ColoredHyperEdgeView contains of a bare set-key (here a list or a
\* hyperedge object) is true iff some cell with that set-key is stored under
\* whatever multiplicity key; contains((set_key, k)) is true iff the cell
\* with that set-key and key k is stored.
C9_ContainsAnyKey ==
    (view = "ColoredHyperEdgeView" /\ call.op = "contains"
       /\ (IsPair(call.arg) \/ call.arg.t \in {"list", "obj"})) =>
      ret.st = "ok" /\ ret.val = StoredKey(call.arg)

SameOutcome(r1, r2) == r1.st = r2.st /\ (r1.st = "ok" => r1.val = r2.val)

\* C10: for labels a # b the collections [a, b], [b, a] and {a, b} normalise
\* to one set-key, so get and contains of HyperEdgeView, SimplexView and
\* NodeView answer alike for the three; as sequence-keys (a, b) and (b, a)
\* differ, and PathView answers for each by whether that very sequence is
\* stored.
C10_Normalisation ==
    \A a, b \in Labels : a # b =>
      LET ab == ListArg(<<a, b>>)
          ba == ListArg(<<b, a>>)
          st == SetArg({a, b})
      IN /\ to_frozen_set(ab) = to_frozen_set(ba)
         /\ to_frozen_set(ab) = to_frozen_set(st)
         /\ to_frozen_set(ab) = {a, b}
         /\ to_tuple(ab) # to_tuple(ba)
         /\ view = "HyperEdgeView" =>
              \A y \in {ba, st} :
                 /\ SameOutcome(HEV_getitem(hyperedge_dict, ab),
                                HEV_getitem(hyperedge_dict, y))
                 /\ SameOutcome(HEV_contains(hyperedge_dict, ab),
                                HEV_contains(hyperedge_dict, y))
                 /\ HEV_contains(hyperedge_dict, ab).st = "ok"
                 /\ HEV_contains(hyperedge_dict, ab).val = StoredKey(st)
         /\ view = "SimplexView" =>
              \A y \in {ba, st} :
                 /\ SameOutcome(SV_getitem(faces_dict, max_dim, ab),
                                SV_getitem(faces_dict, max_dim, y))
                 /\ SameOutcome(SV_contains(faces_dict, max_dim, ab),
                                SV_contains(faces_dict, max_dim, y))
         /\ view = "NodeView" =>
              \A y \in {ba, st} :
                 /\ SameOutcome(NV_getitem(nodes, colored_nodes, ab),
                                NV_getitem(nodes, colored_nodes, y))
                 /\ SameOutcome(InOperator(NV_contains(nodes, ab)),
                                InOperator(NV_contains(nodes, y)))
         /\ view = "PathView" =>
              \A y \in {ab, ba} :
                 /\ PV_contains(faces_dict, max_dim, y).st = "ok"
                 /\ PV_contains(faces_dict, max_dim, y).val = StoredKey(y)
                 /\ (PV_getitem(faces_dict, max_dim, y).st = "ok") = StoredKey(y)

\* C10 witness: a HyperEdgeView holds {1,2} at rank 2 with w = 2 and
\* get([2, 1]) has returned that record.
C10_Witness ==
    /\ view = "HyperEdgeView" /\ call.op = "getitem"
    /\ call.arg = ListArg(<<2, 1>>)
    /\ 2 \in DOMAIN hyperedge_dict
    /\ hyperedge_dict[2] = <<[key |-> {1, 2}, val |-> [w |-> 2]]>>
    /\ ret.st = "ok" /\ ret.val = [w |-> 2]

Max(S) == CHOOSE x \in S : \A y \in S : y <= x

\* C11: in a HyperEdgeView whose lowest and highest present ranks are lo and
\* hi, for every lo <= r <= hi the results of skeleton(r, "upeq") and
\* skeleton(r, "down") share no key and together hold every stored key, each
\* once.
C11_UpeqDownPartition ==
    (view = "HyperEdgeView" /\ DOMAIN hyperedge_dict # {}) =>
      \A r \in Min(DOMAIN hyperedge_dict)..Max(DOMAIN hyperedge_dict) :
        LET upeq == HEV_skeleton(hyperedge_dict, r, "upeq")
            down == HEV_skeleton(hyperedge_dict, r, "down")
        IN /\ upeq.st = "ok" /\ down.st = "ok"
           /\ Range(upeq.val) \cap Range(down.val) = {}
           /\ Range(upeq.val) \cup Range(down.val) = HEV_Stored(hyperedge_dict)
           /\ Len(upeq.val) + Len(down.val) = NumCells(hyperedge_dict)
           /\ (call.op = "skeleton" /\ call.rank = r /\ call.level = "upeq"
                 => ret = upeq)
           /\ (call.op = "skeleton" /\ call.rank = r /\ call.level = "down"
                 => ret = down)

\* C11 witness: ranks 0 and 2 are present, skeleton(1, "upeq") has returned
\* the one key of rank 2 and skeleton(1, "down") yields the one key of rank 0.
C11_Witness ==
    /\ view = "HyperEdgeView" /\ call.op = "skeleton"
    /\ call.level = "upeq" /\ call.rank = 1
    /\ DOMAIN hyperedge_dict = {0, 2}
    /\ ret.st = "ok" /\ Len(ret.val) = 1
    /\ ret.val[1] \in DictKeys(hyperedge_dict[2])
    /\ Len(HEV_skeleton(hyperedge_dict, 1, "down").val) = 1

\* the number of cells stored at rank r: keys for the plain and simplex
\* views, (set-key, multiplicity key) entries for the colored view
CellsAtRank(r) ==
    CASE view = "HyperEdgeView" ->
           IF r \in DOMAIN hyperedge_dict THEN Len(hyperedge_dict[r]) ELSE 0
      [] view = "ColoredHyperEdgeView" ->
           Cardinality(CHEV_PairsAt(colored_dict, r))
      [] OTHER ->
           IF r + 1 \in 1..Len(faces_dict) THEN Len(faces_dict[r + 1]) ELSE 0

\* C12: shape is indexed by rank, shape[r] being the number of cells stored
\* at rank r also when a rank between 0 and the highest rank is absent; for
\* the plain and simplex views len is the sum of the entries of shape.
C12_ShapeIndexedByRank ==
    /\ (view \in {"HyperEdgeView", "ColoredHyperEdgeView", "SimplexView"}
          /\ call.op = "shape") =>
         /\ ret.st = "ok"
         /\ \A r \in 0..(Len(ret.val) - 1) : ret.val[r + 1] = CellsAtRank(r)
    /\ (view = "HyperEdgeView" /\ call.op = "len") =>
         ret.st = "ok" /\ ret.val = SumSeq(HEV_shape(hyperedge_dict))
    /\ (view = "SimplexView" /\ call.op = "len") =>
         ret.st = "ok" /\ ret.val = SumSeq(SV_shape(faces_dict))

\* C13: in HyperEdgeView and ColoredHyperEdgeView get_rank of a bare label a
\* (an int or a text) looks at rank 0 only: it returns 0 when {a} is stored
\* at rank 0 and raises KeyError otherwise, also when {a} is stored at
\* another rank.
C13_LabelRankZeroOnly ==
    (RankAssigned /\ call.op = "get_rank" /\ call.arg.t \in {"label", "str"}) =>
      IF 0 \in RanksHolding(RankDict, {call.arg.v[1]})
      THEN ret.st = "ok" /\ ret.val = 0
      ELSE ret.st = "KeyError"

\* C13 witness: rank 0 holds {2}, {1} is stored at rank 1, and get_rank(1)
\* has raised KeyError.
C13_Witness ==
    /\ RankAssigned /\ call.op = "get_rank" /\ call.arg = LabelArg(1)
    /\ RanksHolding(RankDict, {1}) = {1}
    /\ RanksHolding(RankDict, {2}) = {0}
    /\ ret.st = "KeyError"

\* C14: skeleton called with a relation string outside the nine recognised
\* ones raises ValueError, and returns nothing, in HyperEdgeView and in
\* ColoredHyperEdgeView alike, for every rank and registry state.
C14_InvalidRelationRaises ==
    (RankAssigned /\ call.op = "skeleton" /\ call.level \notin Levels) =>
      ret.st = "ValueError"

\* whether the sequence-key s is stored at index Len(s) - 1 of faces_dict
PathStored(s) ==
    /\ Len(s) \in 1..Len(faces_dict)
    /\ s \in DictKeys(faces_dict[Len(s)])

\* C15: in PathView contains(seq) is true iff that very sequence is stored at
\* index len(seq) - 1 (so (a, b) and (b, a) are two entries, and a sequence
\* longer than max_dim + 1 gives false); and a stored path (a,) is addressed
\* by the bare label a as well: contains(a) is true and get(a) returns the
\* record get((a,)) returns, for every label a, a text label included.
C15_PathOrderAndBareLabel ==
    view = "PathView" =>
      /\ (call.op = "contains" /\ call.arg.t = "list") =>
           /\ ret.st = "ok" /\ ret.val = PathStored(call.arg.v)
           /\ (Len(call.arg.v) > max_dim + 1 => ret.val = FALSE)
      /\ (call.op = "contains" /\ call.arg.t \in {"label", "str"}
            /\ PathStored(<<call.arg.v[1]>>)) =>
           ret.st = "ok" /\ ret.val = TRUE
      /\ (call.op = "getitem" /\ call.arg.t \in {"label", "str"}
            /\ PathStored(<<call.arg.v[1]>>)) =>
           /\ ret.st = "ok"
           /\ ret = PV_getitem(faces_dict, max_dim, ListArg(<<call.arg.v[1]>>))

\* the input shapes that name the node a
NodeShapes(a) ==
    {LabelArg(a), ListArg(<<a>>), TupleArg(<<a>>), SetArg({a}),
     FrozensetArg({a}), ObjArg({a})}

\* equality of two returned Python values, whatever their types
SameValue(x, y) == ToString(x) = ToString(y)

\* C16: in a NodeView, colored or not, the contains answer for a node a is
\* the same for every input shape that names it, and so is the record get
\* returns for a stored node: the bare label, the singleton list, tuple, set
\* and frozenset, and the cell object with elements {a}.
C16_NodeShapeIndependent ==
    (view = "NodeView" /\ call.arg \in UNION {NodeShapes(a) : a \in Labels}) =>
      LET a == call.arg.v[1]
          byLabelIn == InOperator(NV_contains(nodes, LabelArg(a)))
          byLabelGet == NV_getitem(nodes, colored_nodes, LabelArg(a))
      IN /\ call.op = "contains" => ret = byLabelIn
         /\ (call.op = "getitem" /\ DictHas(nodes, {a})) =>
              /\ ret.st = "ok" /\ byLabelGet.st = "ok"
              /\ SameValue(ret.val, byLabelGet.val)

\* the attribute records stored for a cell-view key, in storage order
StoredAttributes(key) ==
    LET d == DictGet(_cells, key)
    IN [i \in 1..Len(d) |-> d[i].val.attributes]

\* C17: get of the cell view returns, for a stored key, the one record itself
\* when exactly one record is stored for the key, and otherwise the list of
\* all the key's records in storage order, one element per record (raw does
\* the same with the cell objects); get of the plain hyperedge view, where a
\* key has exactly one record, returns that record itself.
C17_SingleOrCollection ==
    /\ (view = "CellView" /\ call.op \in {"getitem", "raw"}
          /\ call.arg.t \in {"list", "obj"} /\ DictHas(_cells, call.arg.v)) =>
         LET d == DictGet(_cells, call.arg.v)
             recs == IF call.op = "getitem" THEN StoredAttributes(call.arg.v)
                     ELSE [i \in 1..Len(d) |-> d[i].val]
         IN /\ ret.st = "ok"
            /\ Len(recs) >= 1
            /\ SameValue(ret.val, IF Len(recs) = 1 THEN recs[1] ELSE recs)
    /\ (view = "HyperEdgeView" /\ call.op = "getitem"
          /\ call.arg.t \in {"label", "list", "set", "obj"}
          /\ Range(call.arg.v) \in HEV_Stored(hyperedge_dict)) =>
         LET r == CHOOSE x \in RanksHolding(hyperedge_dict, Range(call.arg.v)) : TRUE
         IN /\ ret.st = "ok"
            /\ ret.val = DictGet(hyperedge_dict[r], Range(call.arg.v))
            /\ ret.val \in AttrRecords

\* C17 witness: the cell (1, 2) is stored under key 1 with w = 2 and then
\* under key 0 with w = 1, and get([1, 2]) has returned the two records in
\* that order.
C17_Witness ==
    /\ view = "CellView" /\ call.op = "getitem"
    /\ call.arg = ListArg(<<1, 2>>)
    /\ DictHas(_cells, <<1, 2>>)
    /\ KeyList(DictGet(_cells, <<1, 2>>)) = <<1, 0>>
    /\ ret.st = "ok"
    /\ SameValue(ret.val, <<[w |-> 2], [w |-> 1]>>)

\* C18: normalising a single label a yields the singleton {a}, whether a is
\* handed as a hashable that is not iterable or as a text of one or more
\* characters; and HyperEdgeView get(a) returns the record stored under {a}.
C18_LabelToSingleton ==
    (view = "HyperEdgeView" /\ call.op = "getitem"
       /\ call.arg.t \in {"label", "str"}) =>
      /\ to_frozen_set(call.arg) = {call.arg.v[1]}
      /\ {call.arg.v[1]} \in HEV_Stored(hyperedge_dict) =>
           LET r == CHOOSE x \in RanksHolding(hyperedge_dict, {call.arg.v[1]}) : TRUE
           IN /\ ret.st = "ok"
              /\ ret.val = DictGet(hyperedge_dict[r], {call.arg.v[1]})

\* C19: in a HyperEdgeView contains(x) is true exactly when get(x) returns a
\* record, for a bare label, a collection and a hyperedge object alike, also
\* for a label a whose singleton {a} is stored at a rank other than 0.
C19_ContainsIffGet ==
    (view = "HyperEdgeView" /\ call.arg.t \in {"label", "list", "set", "obj"}) =>
      /\ call.op = "contains" =>
           /\ ret.st = "ok"
           /\ ret.val = (HEV_getitem(hyperedge_dict, call.arg).st = "ok")
      /\ call.op = "getitem" =>
           (ret.st = "ok") = (HEV_contains(hyperedge_dict, call.arg) = Returns(TRUE))

\* C20: iterating a ColoredHyperEdgeView produces exactly the (set-key,
\* multiplicity key) pairs stored at the ranks other than 0, each once, and
\* as many pairs as len of the view, also when the lowest rank present is
\* not 0.
C20_IterMatchesLen ==
    (view = "ColoredHyperEdgeView" /\ call.op = "iter") =>
      /\ ret.st = "ok"
      /\ Range(ret.val) = CHEV_Stored(colored_dict) \ CHEV_PairsAt(colored_dict, 0)
      /\ NoDuplicates(ret.val)
      /\ Len(ret.val) = CHEV_len(colored_dict)

=============================================================================
